---- MODULE Spec2Model ----
(***************************************************************************)
(* Model of the simulation engine of Simulation-of-Search-ALgo:            *)
(*   CacheLevel and MultiLevelCache (CacheSimulator.ts) and the run loop   *)
(*   of FileAccessSimulator (FileAccessSimulator.ts).                      *)
(***************************************************************************)
EXTENDS Integers, Sequences, FiniteSets, TLC

(***************************************************************************)
(* Bounds of the model.                                                    *)
(***************************************************************************)
\* number of distinct cache keys (the empty string '' is the first of them)
NumKeys == 3
\* number of distinct non-null values
NumValues == 2
\* Date.now() takes the values 0..MaxTime
MaxTime == 2
\* capacity the stand-alone CacheLevel is constructed with
Capacity == 2
\* capacities of the three tiers of a MultiLevelCache (32, 256 and 2048 in
\* the constructor, lines 105-107), scaled down and still strictly increasing
L1Capacity == 1
L2Capacity == 2
L3Capacity == 3
\* a CacheLevel's hits + misses is capped by MaxGets, its evictions by MaxEvictions
MaxGets == 2
MaxEvictions == 2
\* operations of one run (getOperationCount gives 1000, 5000 or 10000)
OperationCount == 2
\* runSimulation sleeps after every Stride-th operation (100, line 120)
Stride == 2
\* the updateInterval the dashboard passes to runRealtimeSimulation (50)
UpdateInterval == 2
\* activations of runSimulation / runRealtimeSimulation in one behaviour
MaxRuns == 3
\* activations of runComparativeSimulation in one behaviour
MaxComparatives == 1
\* the first NumSelectable structures are chosen in the dashboard's selector
\* (the comparative simulation runs all three whatever the bound)
NumSelectable == 1
\* calls a direct caller of the simulator makes in one behaviour
MaxCalls == 1
\* keys of the data structures are strings of at most MaxKeyLen characters
\* out of NumChars ('a', 'b', ...)
NumChars == 2
MaxKeyLen == 2
\* the size a HashTable is constructed with (1000 by default)
HashSize == 2
\* insert and search calls on the data structures in one behaviour
MaxInserts == 2
MaxSyncRuns == 2
NumRecords == 5
MaxSearches == 1
\* a direct caller passes the first NumWorkloads of the workload sizes
NumWorkloads == 2

KeyNames == <<"", "a", "b", "c", "d", "e">>
ValueNames == <<"v1", "v2", "v3", "v4">>
Keys == {KeyNames[n] : n \in 1..NumKeys}
Values == {ValueNames[n] : n \in 1..NumValues}
\* JavaScript null
Null == "null"

VARIABLES
  now,      \* the value Date.now() returns
  level,    \* a stand-alone CacheLevel of capacity Capacity
  cache,    \* a MultiLevelCache: l1Cache, l2Cache, l3Cache, memoryAccesses
  last,     \* the last call made on level or cache by a direct caller: its
            \* name, arguments, what it returned and what the callee held
  isRunning,  \* FileAccessSimulator.isRunning
  uiRunning,  \* the dashboard's React state isRunning
  runs,     \* the activations of runSimulation / runRealtimeSimulation,
            \* in the order they were started
  comps,    \* the activations of runComparativeSimulation
  active,   \* the run whose code holds the JavaScript thread, or 0
  bst,      \* a BinarySearchTree
  hashTable,  \* a HashTable
  trie,     \* a Trie
  answer,   \* what the last search on bst, hashTable and trie returned
  operations  \* an activation of generateOperations: the requested count,
            \* the array built so far and the Math.random() value that
            \* chose each element's subset

simVars == <<isRunning, uiRunning, runs, comps, active>>
dsVars == <<bst, hashTable, trie, answer, operations>>
vars == <<now, level, cache, last, isRunning, uiRunning, runs, comps, active,
          bst, hashTable, trie, answer, operations>>

(***************************************************************************)
(* CacheLevel (CacheSimulator.ts 9-95).  `cache` is the Map, kept as the   *)
(* sequence of its entries in Map iteration (insertion) order; accessCount *)
(* of an entry is written but never read and is left out.                  *)
(***************************************************************************)
\* new CacheLevel(capacity)
NewCacheLevel(capacity) ==
  [cache |-> <<>>, capacity |-> capacity, hits |-> 0, misses |-> 0,
   evictions |-> 0]

\* Map.has
Has(entries, key) == \E n \in 1..Len(entries) : entries[n].key = key

\* position of key in the Map's iteration order
IndexOf(entries, key) == CHOOSE n \in 1..Len(entries) : entries[n].key = key

\* Map.delete
MapDelete(entries, key) ==
  IF Has(entries, key)
    THEN LET n == IndexOf(entries, key)
         IN  SubSeq(entries, 1, n - 1) \o SubSeq(entries, n + 1, Len(entries))
    ELSE entries

\* Map.set: an existing key keeps its place in the iteration order
MapSet(entries, entry) ==
  IF Has(entries, entry.key)
    THEN [entries EXCEPT ![IndexOf(entries, entry.key)] = entry]
    ELSE Append(entries, entry)

KeysOf(entries) == {entries[n].key : n \in 1..Len(entries)}

\* the loop of put (lines 59-64), from entry n on
RECURSIVE OldestScan(_, _, _, _)
OldestScan(entries, n, oldestKey, oldestTime) ==
  IF n > Len(entries) THEN oldestKey
  ELSE IF entries[n].timestamp < oldestTime
    THEN OldestScan(entries, n + 1, entries[n].key, entries[n].timestamp)
    ELSE OldestScan(entries, n + 1, oldestKey, oldestTime)

\* CacheLevel.get at clock value t: the level afterwards and what is returned
CacheLevel_get(L, key, t) ==
  IF Has(L.cache, key)
    THEN LET n == IndexOf(L.cache, key)
         IN  [level |-> [L EXCEPT !.hits = @ + 1, !.cache[n].timestamp = t],
              hit |-> TRUE, value |-> L.cache[n].value]
    ELSE [level |-> [L EXCEPT !.misses = @ + 1], hit |-> FALSE, value |-> Null]

\* the mutant of CacheLevel_put that evicts whenever the level is full
CacheLevel_put_EvictAlways(L, key, value, t) ==
  LET entry == [key |-> key, value |-> value, timestamp |-> t]
      oldestKey == OldestScan(L.cache, 1, "", t)
      evict == Len(L.cache) >= L.capacity /\ oldestKey # ""
      kept == IF evict THEN MapDelete(L.cache, oldestKey) ELSE L.cache
  IN  [L EXCEPT !.cache = MapSet(kept, entry),
                !.evictions = IF evict THEN @ + 1 ELSE @]

\* CacheLevel.put at clock value t (both Date.now() reads give t)
CacheLevel_put(L, key, value, t) ==
  LET entry == [key |-> key, value |-> value, timestamp |-> t]
      oldestKey == OldestScan(L.cache, 1, "", t)
      \* if (size >= capacity && !has(key)) ... if (oldestKey), '' being falsy
      evict == Len(L.cache) >= L.capacity /\ ~Has(L.cache, key) /\ oldestKey # ""
      kept == IF evict THEN MapDelete(L.cache, oldestKey) ELSE L.cache
  IN  [L EXCEPT !.cache = MapSet(kept, entry),
                !.evictions = IF evict THEN @ + 1 ELSE @]

\* CacheLevel.reset: the Map is cleared and the counters zeroed
CacheLevel_reset(L) ==
  [L EXCEPT !.cache = <<>>, !.hits = 0, !.misses = 0, !.evictions = 0]

(***************************************************************************)
(* MultiLevelCache (CacheSimulator.ts 98-210).  The latencies it adds up   *)
(* are random numbers that no decision reads; get returns the rest.        *)
(***************************************************************************)
NewMultiLevelCache ==
  [l1Cache |-> NewCacheLevel(L1Capacity), l2Cache |-> NewCacheLevel(L2Capacity),
   l3Cache |-> NewCacheLevel(L3Capacity), memoryAccesses |-> 0]

\* mutant of MultiLevelCache_get: a hit in L2 or L3 moves the entry to the
\* faster tiers instead of copying it
MultiLevelCache_get_Move(C, key, t) ==
  LET l1Result == CacheLevel_get(C.l1Cache, key, t)
      l2Result == CacheLevel_get(C.l2Cache, key, t)
      l3Result == CacheLevel_get(C.l3Cache, key, t)
      counted == [C EXCEPT !.memoryAccesses = @ + 1]
  IN  IF l1Result.hit
        THEN [cache |-> [counted EXCEPT !.l1Cache = l1Result.level],
              value |-> l1Result.value, hit |-> TRUE, level |-> "L1"]
      ELSE IF l2Result.hit
        THEN [cache |-> [counted EXCEPT
                !.l1Cache = CacheLevel_put(l1Result.level, key,
                                           l2Result.value, t),
                !.l2Cache = [l2Result.level EXCEPT
                               !.cache = MapDelete(@, key)]],
              value |-> l2Result.value, hit |-> TRUE, level |-> "L2"]
      ELSE IF l3Result.hit
        THEN [cache |-> [counted EXCEPT
                !.l1Cache = CacheLevel_put(l1Result.level, key,
                                           l3Result.value, t),
                !.l2Cache = CacheLevel_put(l2Result.level, key,
                                           l3Result.value, t),
                !.l3Cache = [l3Result.level EXCEPT
                               !.cache = MapDelete(@, key)]],
              value |-> l3Result.value, hit |-> TRUE, level |-> "L3"]
      ELSE [cache |-> [counted EXCEPT !.l1Cache = l1Result.level,
                                      !.l2Cache = l2Result.level,
                                      !.l3Cache = l3Result.level],
            value |-> Null, hit |-> FALSE, level |-> "Memory"]

\* mutant of MultiLevelCache_get: the three tiers are probed before the
\* results are looked at, so an L1 hit also counts in L2 and L3
MultiLevelCache_get_ProbeAll(C, key, t) ==
  LET l1Result == CacheLevel_get(C.l1Cache, key, t)
      l2Result == CacheLevel_get(C.l2Cache, key, t)
      l3Result == CacheLevel_get(C.l3Cache, key, t)
      probed == [C EXCEPT !.memoryAccesses = @ + 1,
                          !.l1Cache = l1Result.level,
                          !.l2Cache = l2Result.level,
                          !.l3Cache = l3Result.level]
  IN  IF l1Result.hit
        THEN [cache |-> probed,
              value |-> l1Result.value, hit |-> TRUE, level |-> "L1"]
      ELSE IF l2Result.hit
        THEN [cache |-> [probed EXCEPT
                !.l1Cache = CacheLevel_put(@, key, l2Result.value, t)],
              value |-> l2Result.value, hit |-> TRUE, level |-> "L2"]
      ELSE IF l3Result.hit
        THEN [cache |-> [probed EXCEPT
                !.l1Cache = CacheLevel_put(@, key, l3Result.value, t),
                !.l2Cache = CacheLevel_put(@, key, l3Result.value, t)],
              value |-> l3Result.value, hit |-> TRUE, level |-> "L3"]
      ELSE [cache |-> probed,
            value |-> Null, hit |-> FALSE, level |-> "Memory"]

\* mutant of MultiLevelCache_get: a full miss leaves a null entry for the
\* key in L1
MultiLevelCache_get_Tombstone(C, key, t) ==
  LET l1Result == CacheLevel_get(C.l1Cache, key, t)
      l2Result == CacheLevel_get(C.l2Cache, key, t)
      l3Result == CacheLevel_get(C.l3Cache, key, t)
      counted == [C EXCEPT !.memoryAccesses = @ + 1]
  IN  IF l1Result.hit
        THEN [cache |-> [counted EXCEPT !.l1Cache = l1Result.level],
              value |-> l1Result.value, hit |-> TRUE, level |-> "L1"]
      ELSE IF l2Result.hit
        THEN [cache |-> [counted EXCEPT
                !.l1Cache = CacheLevel_put(l1Result.level, key,
                                           l2Result.value, t),
                !.l2Cache = l2Result.level],
              value |-> l2Result.value, hit |-> TRUE, level |-> "L2"]
      ELSE IF l3Result.hit
        THEN [cache |-> [counted EXCEPT
                !.l1Cache = CacheLevel_put(l1Result.level, key,
                                           l3Result.value, t),
                !.l2Cache = CacheLevel_put(l2Result.level, key,
                                           l3Result.value, t),
                !.l3Cache = l3Result.level],
              value |-> l3Result.value, hit |-> TRUE, level |-> "L3"]
      ELSE [cache |-> [counted EXCEPT
                !.l1Cache = CacheLevel_put(l1Result.level, key, Null, t),
                !.l2Cache = l2Result.level,
                !.l3Cache = l3Result.level],
            value |-> Null, hit |-> FALSE, level |-> "Memory"]

\* MultiLevelCache.get at clock value t: the cache afterwards and the result
MultiLevelCache_get(C, key, t) ==
  LET l1Result == CacheLevel_get(C.l1Cache, key, t)
      l2Result == CacheLevel_get(C.l2Cache, key, t)
      l3Result == CacheLevel_get(C.l3Cache, key, t)
      counted == [C EXCEPT !.memoryAccesses = @ + 1]
  IN  IF l1Result.hit
        THEN [cache |-> [counted EXCEPT !.l1Cache = l1Result.level],
              value |-> l1Result.value, hit |-> TRUE, level |-> "L1"]
      ELSE IF l2Result.hit
        THEN [cache |-> [counted EXCEPT
                !.l1Cache = CacheLevel_put(l1Result.level, key,
                                           l2Result.value, t),
                !.l2Cache = l2Result.level],
              value |-> l2Result.value, hit |-> TRUE, level |-> "L2"]
      ELSE IF l3Result.hit
        THEN [cache |-> [counted EXCEPT
                !.l1Cache = CacheLevel_put(l1Result.level, key,
                                           l3Result.value, t),
                !.l2Cache = CacheLevel_put(l2Result.level, key,
                                           l3Result.value, t),
                !.l3Cache = l3Result.level],
              value |-> l3Result.value, hit |-> TRUE, level |-> "L3"]
      ELSE [cache |-> [counted EXCEPT !.l1Cache = l1Result.level,
                                      !.l2Cache = l2Result.level,
                                      !.l3Cache = l3Result.level],
            value |-> Null, hit |-> FALSE, level |-> "Memory"]

\* mutant of MultiLevelCache_put: the value is written to L2 and L3 only
MultiLevelCache_put_SkipL1(C, key, value, t) ==
  [C EXCEPT !.l2Cache = CacheLevel_put(@, key, value, t),
            !.l3Cache = CacheLevel_put(@, key, value, t)]

\* MultiLevelCache.put: write-through into the three tiers
MultiLevelCache_put(C, key, value, t) ==
  [C EXCEPT !.l1Cache = CacheLevel_put(@, key, value, t),
            !.l2Cache = CacheLevel_put(@, key, value, t),
            !.l3Cache = CacheLevel_put(@, key, value, t)]

\* MultiLevelCache.reset
MultiLevelCache_reset(C) ==
  [C EXCEPT !.l1Cache = CacheLevel_reset(@), !.l2Cache = CacheLevel_reset(@),
            !.l3Cache = CacheLevel_reset(@), !.memoryAccesses = 0]

(***************************************************************************)
(* BinarySearchTree, HashTable and Trie (DataStructures.ts).  A string is  *)
(* the sequence of its characters, a character the number i of the i-th    *)
(* letter.  The latency a search reports is a wall-clock difference and is *)
(* left out.                                                               *)
(***************************************************************************)
Chars == 1..NumChars
Strings == UNION {[1..n -> Chars] : n \in 0..MaxKeyLen}

\* a < b on strings: the order of the first differing character, a proper
\* prefix being smaller
RECURSIVE StrLess(_, _)
StrLess(a, b) ==
  IF b = <<>> THEN FALSE
  ELSE IF a = <<>> THEN TRUE
  ELSE IF Head(a) # Head(b) THEN Head(a) < Head(b)
  ELSE StrLess(Tail(a), Tail(b))

\* a BSTNode is <<key, value, left, right>>, the null pointer is <<>>
NewBinarySearchTree == [root |-> <<>>, accessCount |-> 0, comparisons |-> 0]

RECURSIVE insertNode(_, _, _)
insertNode(node, key, value) ==
  IF node = <<>> THEN <<key, value, <<>>, <<>> >>
  ELSE IF StrLess(key, node[1])
    THEN <<node[1], node[2], insertNode(node[3], key, value), node[4]>>
  ELSE IF StrLess(node[1], key)
    THEN <<node[1], node[2], node[3], insertNode(node[4], key, value)>>
  ELSE <<node[1], value, node[3], node[4]>>

BinarySearchTree_insert(T, key, value) ==
  [T EXCEPT !.root = insertNode(T.root, key, value)]

\* searchNode: the value it returns and the comparisons it has counted
RECURSIVE searchNode(_, _, _)
searchNode(node, key, comparisons) ==
  IF node = <<>> THEN [value |-> Null, comparisons |-> comparisons]
  ELSE IF key = node[1]
    THEN [value |-> node[2], comparisons |-> comparisons + 1]
  ELSE IF StrLess(key, node[1])
    THEN searchNode(node[3], key, comparisons + 1)
  ELSE searchNode(node[4], key, comparisons + 1)

\* search: the tree afterwards and the object returned
BinarySearchTree_search(T, key) ==
  LET result == searchNode(T.root, key, 0)
  IN  [tree |-> [T EXCEPT !.accessCount = @ + 1,
                          !.comparisons = result.comparisons],
       value |-> result.value,
       found |-> result.value # Null]

\* buckets[index + 1] is the array of {key, value} items of bucket index
NewHashTable(size) ==
  [buckets |-> [index \in 1..size |-> <<>>], size |-> size,
   accessCount |-> 0, collisions |-> 0]

CharCode(char) == 96 + char

Abs(x) == IF x < 0 THEN 0 - x ELSE x

\* hash = ((hash << 5) - hash) + char, converted to a 32-bit integer after
\* every character: 31 * hash + char, which stays far below 2^31 for the
\* strings of the model
RECURSIVE hashFrom(_, _)
hashFrom(hash, key) ==
  IF key = <<>> THEN hash
  ELSE hashFrom((hash * 32 - hash) + CharCode(Head(key)), Tail(key))

HashTable_hash(H, key) == Abs(hashFrom(0, key)) % H.size

\* bucket.find(item => item.key === key): the index of the first such item,
\* 0 when find returns undefined
Find(bucket, key) ==
  IF \E j \in 1..Len(bucket) : bucket[j].key = key
    THEN CHOOSE j \in 1..Len(bucket) :
           /\ bucket[j].key = key
           /\ \A k \in 1..(j - 1) : bucket[k].key # key
    ELSE 0

\* mutant of HashTable_insert: the item is pushed whether or not the key is
\* in the bucket
HashTable_insert_AlwaysPush(H, key, value) ==
  LET index == HashTable_hash(H, key) + 1
  IN  [H EXCEPT !.buckets[index] = Append(@, [key |-> key, value |-> value])]

HashTable_insert(H, key, value) ==
  LET index == HashTable_hash(H, key) + 1
      bucket == H.buckets[index]
      existingItem == Find(bucket, key)
  IN  IF existingItem # 0
        THEN [H EXCEPT !.buckets[index][existingItem].value = value]
        ELSE [H EXCEPT !.buckets[index] =
                         Append(@, [key |-> key, value |-> value]),
                       !.collisions = IF Len(bucket) > 0 THEN @ + 1 ELSE @]

HashTable_search(H, key) ==
  LET index == HashTable_hash(H, key) + 1
      bucket == H.buckets[index]
      item == Find(bucket, key)
  IN  [table |-> [H EXCEPT !.accessCount = @ + 1],
       value |-> IF item # 0 THEN bucket[item].value ELSE Null,
       found |-> item # 0,
       bucketSize |-> Len(bucket)]

\* the nodes of a Trie by the path of characters that leads to them from
\* the root (the node at path p has a child for char exactly when the path
\* Append(p, char) has a node)
NewTrieNode == [isEndOfWord |-> FALSE, value |-> Null]

NewTrie ==
  [nodes |-> [p \in {<<>>} |-> NewTrieNode], accessCount |-> 0,
   nodeTraversals |-> 0]

\* the loop of insert from the n-th character of key on
RECURSIVE insertFrom(_, _, _)
insertFrom(nodes, key, n) ==
  IF n > Len(key) THEN nodes
  ELSE LET child == SubSeq(key, 1, n)
       IN  insertFrom(IF child \in DOMAIN nodes
                        THEN nodes
                        ELSE [p \in DOMAIN nodes \cup {child} |->
                                IF p = child THEN NewTrieNode ELSE nodes[p]],
                      key, n + 1)

Trie_insert(T, key, value) ==
  [T EXCEPT !.nodes = [insertFrom(T.nodes, key, 1) EXCEPT
                         ![key] = [isEndOfWord |-> TRUE, value |-> value]]]

\* mutant of searchFrom: a traversal that consumes the whole key is a hit
RECURSIVE searchFrom_PrefixFound(_, _, _)
searchFrom_PrefixFound(nodes, key, n) ==
  IF n > Len(key)
    THEN [value |-> nodes[key].value, found |-> TRUE, nodeTraversals |-> n - 1]
  ELSE IF SubSeq(key, 1, n) \notin DOMAIN nodes
    THEN [value |-> Null, found |-> FALSE, nodeTraversals |-> n]
  ELSE searchFrom_PrefixFound(nodes, key, n + 1)

\* the loop of search from the n-th character of key on: the node reached,
\* or the early return at a missing child
RECURSIVE searchFrom(_, _, _)
searchFrom(nodes, key, n) ==
  IF n > Len(key)
    THEN [value |-> IF nodes[key].isEndOfWord THEN nodes[key].value ELSE Null,
          found |-> nodes[key].isEndOfWord,
          nodeTraversals |-> n - 1]
  ELSE IF SubSeq(key, 1, n) \notin DOMAIN nodes
    THEN [value |-> Null, found |-> FALSE, nodeTraversals |-> n]
  ELSE searchFrom(nodes, key, n + 1)

Trie_search(T, key) ==
  LET result == searchFrom(T.nodes, key, 1)
  IN  [trie |-> [T EXCEPT !.accessCount = @ + 1,
                          !.nodeTraversals = result.nodeTraversals],
       value |-> result.value,
       found |-> result.found,
       nodeTraversals |-> result.nodeTraversals]

NoAnswer == [op |-> "none"]
NoOperations == [pc |-> "none", count |-> 0, paths |-> <<>>, random |-> <<>>]

(***************************************************************************)
(* The stand-alone CacheLevel and its callers.                             *)
(***************************************************************************)
NoCall == [op |-> "none", key |-> "", value |-> Null, hit |-> FALSE,
           ret |-> Null, lvl |-> "none", present |-> FALSE, size |-> 0,
           in1 |-> FALSE, in2 |-> FALSE, in3 |-> FALSE, old |-> Null]

Init ==
  /\ now = 0
  /\ level = NewCacheLevel(Capacity)
  /\ cache = NewMultiLevelCache
  /\ last = NoCall
  /\ isRunning = FALSE
  /\ uiRunning = FALSE
  /\ runs = <<>>
  /\ comps = <<>>
  /\ active = 0
  /\ bst = NewBinarySearchTree
  /\ hashTable = NewHashTable(HashSize)
  /\ trie = NewTrie
  /\ answer = NoAnswer
  /\ operations = NoOperations

\* the cap on a level's evictions counter: a put that can evict is made
\* only while the counter is below MaxEvictions
MayPut(L, key) ==
  ~(/\ L.evictions >= MaxEvictions
    /\ ~Has(L.cache, key)
    /\ Len(L.cache) >= L.capacity)

\* Date.now() advances between calls
Tick ==
  /\ now < MaxTime
  /\ now' = now + 1
  /\ UNCHANGED <<level, cache, last, simVars, dsVars>>

LevelGet(key) ==
  /\ level.hits + level.misses < MaxGets
  /\ LET r == CacheLevel_get(level, key, now)
     IN  /\ level' = r.level
         /\ last' = [NoCall EXCEPT !.op = "get", !.key = key, !.hit = r.hit,
                       !.ret = r.value, !.present = Has(level.cache, key),
                       !.size = Len(level.cache)]
  /\ UNCHANGED <<now, cache, simVars, dsVars>>

LevelPut(key, value) ==
  /\ MayPut(level, key)
  /\ level' = CacheLevel_put(level, key, value, now)
  /\ last' = [NoCall EXCEPT !.op = "put", !.key = key, !.value = value,
                !.present = Has(level.cache, key), !.size = Len(level.cache)]
  /\ UNCHANGED <<now, cache, simVars, dsVars>>

LevelReset ==
  /\ level' = CacheLevel_reset(level)
  /\ last' = [NoCall EXCEPT !.op = "reset", !.size = Len(level.cache)]
  /\ UNCHANGED <<now, cache, simVars, dsVars>>

NextLevel ==
  \/ Tick
  \/ \E key \in Keys : LevelGet(key)
  \/ \E key \in Keys, value \in Values : LevelPut(key, value)
  \/ LevelReset

SpecLevel == Init /\ [][NextLevel]_vars

\* new CacheLevel(capacity) for any number a caller passes, zero and a
\* negative one among them (the constructor, lines 16-18, stores it)
CapacityInputs == -1..Capacity

InitConstruct ==
  /\ now = 0
  /\ level \in {NewCacheLevel(capacity) : capacity \in CapacityInputs}
  /\ cache = NewMultiLevelCache
  /\ last = NoCall
  /\ isRunning = FALSE
  /\ uiRunning = FALSE
  /\ runs = <<>>
  /\ comps = <<>>
  /\ active = 0
  /\ bst = NewBinarySearchTree
  /\ hashTable = NewHashTable(HashSize)
  /\ trie = NewTrie
  /\ answer = NoAnswer
  /\ operations = NoOperations

SpecConstruct == InitConstruct /\ [][NextLevel]_vars

(***************************************************************************)
(* The MultiLevelCache and its callers.                                    *)
(***************************************************************************)
CacheGet(key) ==
  /\ cache.memoryAccesses < MaxGets
  /\ LET r == MultiLevelCache_get(cache, key, now)
     IN  /\ cache' = r.cache
         /\ last' = [NoCall EXCEPT !.op = "get", !.key = key, !.hit = r.hit,
                       !.ret = r.value, !.lvl = r.level,
                       !.in1 = Has(cache.l1Cache.cache, key),
                       !.in2 = Has(cache.l2Cache.cache, key),
                       !.in3 = Has(cache.l3Cache.cache, key)]
  /\ UNCHANGED <<now, level, simVars, dsVars>>

CachePut(key, value) ==
  /\ MayPut(cache.l1Cache, key)
  /\ MayPut(cache.l2Cache, key)
  /\ MayPut(cache.l3Cache, key)
  /\ cache' = MultiLevelCache_put(cache, key, value, now)
  /\ last' = [NoCall EXCEPT !.op = "put", !.key = key, !.value = value,
                !.in1 = Has(cache.l1Cache.cache, key),
                !.in2 = Has(cache.l2Cache.cache, key),
                !.in3 = Has(cache.l3Cache.cache, key),
                !.old = IF Has(cache.l3Cache.cache, key)
                          THEN cache.l3Cache.cache[
                                 IndexOf(cache.l3Cache.cache, key)].value
                          ELSE Null]
  /\ UNCHANGED <<now, level, simVars, dsVars>>

CacheReset ==
  /\ cache' = MultiLevelCache_reset(cache)
  /\ last' = [NoCall EXCEPT !.op = "reset"]
  /\ UNCHANGED <<now, level, simVars, dsVars>>

NextCache ==
  \/ Tick
  \/ \E key \in Keys : CacheGet(key)
  \/ \E key \in Keys, value \in Values : CachePut(key, value)
  \/ CacheReset

SpecCache == Init /\ [][NextCache]_vars

(***************************************************************************)
(* FileAccessSimulator (FileAccessSimulator.ts).  The execution model is   *)
(* the JavaScript event loop: a run holds the thread from the moment it    *)
(* is called or resumed by a timer until it sleeps in setTimeout or        *)
(* returns (the await of searchInStructure resumes in a microtask, before  *)
(* any timer or click is served); clicks and timers are served only when   *)
(* no run holds the thread.  Latencies, totalTime and throughput are       *)
(* random or wall-clock numbers that no decision reads; of the latencies   *)
(* array the model keeps the length.                                       *)
(***************************************************************************)
\* the paths of fileRecords: keys of the form /directory/file, never ''
FilePaths == Keys \ {""}

structures == <<"BST", "Hash", "Trie">>

\* a percentage part / total * 100 kept exact, as a fraction; 0 when the
\* code's guard total > 0 fails
Rate(part, total) ==
  IF total > 0 THEN [num |-> part * 100, den |-> total]
               ELSE [num |-> 0, den |-> 1]

\* CacheLevel.getStats
CacheLevel_getStats(L) ==
  [hits |-> L.hits, misses |-> L.misses,
   hitRate |-> Rate(L.hits, L.hits + L.misses),
   missRate |-> Rate(L.misses, L.hits + L.misses),
   utilization |-> [num |-> Len(L.cache) * 100, den |-> L.capacity],
   evictions |-> L.evictions, size |-> Len(L.cache), capacity |-> L.capacity]

\* MultiLevelCache.getOverallStats
MultiLevelCache_getOverallStats(C) ==
  LET l1Stats == CacheLevel_getStats(C.l1Cache)
      l2Stats == CacheLevel_getStats(C.l2Cache)
      l3Stats == CacheLevel_getStats(C.l3Cache)
      totalHits == l1Stats.hits + l2Stats.hits + l3Stats.hits
      totalMisses == l3Stats.misses
      totalAccesses == totalHits + totalMisses
  IN  [l1 |-> l1Stats, l2 |-> l2Stats, l3 |-> l3Stats,
       overall |-> [hitRate |-> Rate(totalHits, totalAccesses),
                    missRate |-> Rate(totalMisses, totalAccesses),
                    memoryAccesses |-> C.memoryAccesses,
                    totalAccesses |-> totalAccesses]]

\* the structure identifiers a caller may pass to a run: the three of
\* StructureType and one that is none of them (the type is erased at run
\* time)
StructureInputs == {structures[k] : k \in 1..Len(structures)} \cup {"AVL"}

\* searchInStructure: populateDataStructures has inserted every record into
\* each of the three structures under its path; any other identifier takes
\* the default branch of the switch, which throws
searchInStructure(structure, key) ==
  [threw |-> structure \notin {structures[k] : k \in 1..Len(structures)},
   found |-> key \in FilePaths, value |-> IF key \in FilePaths THEN key ELSE Null]

NoResult == [structure |-> "none"]
NoSnapshot == [structure |-> "none"]

\* the locals of a run as it starts (lines 85-94).  operations[i] is an
\* independent random draw from the paths of fileRecords that is read at
\* iteration i only: the model keeps the array's length and draws the
\* element when it is read.  executed counts the calls
\* of cache.get the run has made, queries its calls of searchInStructure,
\* stopped holds the value of executed when stopSimulation was first called
\* while the run was in progress, overlapped tells whether another run was
\* in progress at any time between the run's start and its return.
\* operation and ticket are used where the await of searchInStructure is a
\* step of its own: the operation whose search is awaited and the place of
\* the run's continuation in the microtask queue
NewRun(kind, structure, caller) ==
  [kind |-> kind, structure |-> structure, caller |-> caller,
   length |-> OperationCount, i |-> 0, hits |-> 0, misses |-> 0,
   samples |-> 0, executed |-> 0, pc |-> "loop", snapshot |-> NoSnapshot,
   result |-> NoResult, stopped |-> <<>>, onUpdate |-> "reports",
   updates |-> <<>>, error |-> "none", startTime |-> now, queries |-> 0,
   overlapped |-> \E r \in 1..Len(runs) :
                    runs[r].pc \in {"loop", "await", "timer"},
   operation |-> "", ticket |-> 0]

\* the runs as a starting run finds them: those still in progress share the
\* cache and the flag with it from here on
Overlapping ==
  [r \in 1..Len(runs) |->
     IF runs[r].pc \in {"loop", "await", "timer"}
       THEN [runs[r] EXCEPT !.overlapped = TRUE]
       ELSE runs[r]]

\* mutant of LoopBody: a cache hit records no latency sample
LoopBody_NoSampleOnHit(R, C, key, t) ==
  LET cacheResult == MultiLevelCache_get(C, key, t)
      structureResult == searchInStructure(R.structure, key)
  IN  IF cacheResult.hit
        THEN [run |-> [R EXCEPT !.hits = @ + 1, !.executed = @ + 1],
              cache |-> cacheResult.cache, threw |-> FALSE]
        ELSE IF structureResult.threw
        THEN [run |-> [R EXCEPT !.executed = @ + 1, !.queries = @ + 1],
              cache |-> cacheResult.cache, threw |-> TRUE]
        ELSE [run |-> [R EXCEPT !.misses = @ + 1, !.samples = @ + 1,
                                !.executed = @ + 1, !.queries = @ + 1],
              threw |-> FALSE,
              cache |-> IF structureResult.found
                          THEN MultiLevelCache_put(cacheResult.cache, key,
                                                   structureResult.value, t)
                          ELSE cacheResult.cache]

\* mutant of LoopBody: a miss is cached whether or not the structure found
\* the key
LoopBody_CachesNotFound(R, C, key, t) ==
  LET cacheResult == MultiLevelCache_get(C, key, t)
      structureResult == searchInStructure(R.structure, key)
  IN  IF cacheResult.hit
        THEN [run |-> [R EXCEPT !.hits = @ + 1, !.samples = @ + 1,
                                !.executed = @ + 1],
              cache |-> cacheResult.cache, threw |-> FALSE]
        ELSE IF structureResult.threw
        THEN [run |-> [R EXCEPT !.executed = @ + 1, !.queries = @ + 1],
              cache |-> cacheResult.cache, threw |-> TRUE]
        ELSE [run |-> [R EXCEPT !.misses = @ + 1, !.samples = @ + 1,
                                !.executed = @ + 1, !.queries = @ + 1],
              threw |-> FALSE,
              cache |-> MultiLevelCache_put(cacheResult.cache, key,
                                            structureResult.value, t)]

\* one iteration of the loop (lines 97-117 and 242-261) for operation key:
\* the run's locals and the cache afterwards
LoopBody(R, C, key, t) ==
  LET cacheResult == MultiLevelCache_get(C, key, t)
      structureResult == searchInStructure(R.structure, key)
  IN  IF cacheResult.hit
        THEN [run |-> [R EXCEPT !.hits = @ + 1, !.samples = @ + 1,
                                !.executed = @ + 1],
              cache |-> cacheResult.cache, threw |-> FALSE]
        ELSE IF structureResult.threw
        \* the await of searchInStructure rejects: the run ends here
        THEN [run |-> [R EXCEPT !.executed = @ + 1, !.queries = @ + 1],
              cache |-> cacheResult.cache, threw |-> TRUE]
        ELSE [run |-> [R EXCEPT !.misses = @ + 1, !.samples = @ + 1,
                                !.executed = @ + 1, !.queries = @ + 1],
              threw |-> FALSE,
              cache |-> IF structureResult.found
                          THEN MultiLevelCache_put(cacheResult.cache, key,
                                                   structureResult.value, t)
                          ELSE cacheResult.cache]

\* mutant of Result: the throughput is computed whatever the elapsed time
Result_UnguardedThroughput(R, C) ==
  LET totalOperations == R.hits + R.misses
      totalTime == now - R.startTime
  IN  [structure |-> R.structure,
       hitRate |-> Rate(R.hits, totalOperations),
       missRate |-> Rate(R.misses, totalOperations),
       samples |-> R.samples,
       avgLatency |-> IF R.samples > 0 THEN [num |-> R.samples, den |-> R.samples]
                                       ELSE [num |-> 0, den |-> 1],
       maxLatency |-> IF R.samples > 0 THEN 1 ELSE 0,
       minLatency |-> IF R.samples > 0 THEN 1 ELSE 0,
       throughput |-> [num |-> totalOperations * 1000, den |-> totalTime],
       totalTime |-> totalTime,
       cacheStats |-> MultiLevelCache_getOverallStats(C),
       operationsPerformed |-> totalOperations]

\* the object a run returns (lines 125-140 and 282-297).  totalTime is the
\* clock at the return less the clock at the start; every latency sample is
\* one unit of time, so that the mean, the largest and the smallest of a
\* non-empty latencies array are 1; a quotient is kept as a fraction
Result(R, C) ==
  LET totalOperations == R.hits + R.misses
      totalTime == now - R.startTime
  IN  [structure |-> R.structure,
       hitRate |-> Rate(R.hits, totalOperations),
       missRate |-> Rate(R.misses, totalOperations),
       samples |-> R.samples,
       avgLatency |-> IF R.samples > 0 THEN [num |-> R.samples, den |-> R.samples]
                                       ELSE [num |-> 0, den |-> 1],
       maxLatency |-> IF R.samples > 0 THEN 1 ELSE 0,
       minLatency |-> IF R.samples > 0 THEN 1 ELSE 0,
       throughput |-> IF totalTime > 0
                        THEN [num |-> totalOperations * 1000, den |-> totalTime]
                        ELSE [num |-> 0, den |-> 1],
       totalTime |-> totalTime,
       cacheStats |-> MultiLevelCache_getOverallStats(C),
       operationsPerformed |-> totalOperations]

\* what runRealtimeSimulation passes to onUpdate after operation i
\* (lines 264-276)
Snapshot(R, i) ==
  LET totalOperations == R.hits + R.misses
  IN  [progress |-> [num |-> i * 100, den |-> R.length],
       structure |-> R.structure,
       hitRate |-> Rate(R.hits, totalOperations),
       missRate |-> Rate(R.misses, totalOperations),
       samples |-> R.samples,
       operationsPerformed |-> totalOperations]

\* mutant of Sleeps: the callback and the sleep follow every operation
Sleeps_EveryOperation(R, i) ==
  TRUE

\* i % 100 === 0 in runSimulation, i % updateInterval === 0 in
\* runRealtimeSimulation
Sleeps(R, i) ==
  IF R.kind = "runRealtimeSimulation" THEN i % UpdateInterval = 0
                                      ELSE i % Stride = 0

\* mutant of StartRun: the run starts on the cache as the last run left it
StartRun_NoReset(kind, structure, caller) ==
  /\ isRunning' = TRUE
  /\ cache' = cache
  /\ runs' = Append(Overlapping, NewRun(kind, structure, caller))
  /\ active' = Len(runs) + 1

\* mutant of StartRun: the run starts under the flag as it finds it
StartRun_KeepFlag(kind, structure, caller) ==
  /\ isRunning' = isRunning
  /\ cache' = MultiLevelCache_reset(cache)
  /\ runs' = Append(Overlapping, NewRun(kind, structure, caller))
  /\ active' = Len(runs) + 1

\* mutant of StartRun: the cacheStats of the results returned so far are the
\* cache's own counters, so they follow the reset
StartRun_SharedStats(kind, structure, caller) ==
  /\ isRunning' = TRUE
  /\ cache' = MultiLevelCache_reset(cache)
  /\ runs' = Append([r \in 1..Len(runs) |->
                       IF runs[r].pc = "returned"
                         THEN [runs[r] EXCEPT !.result.cacheStats =
                                 MultiLevelCache_getOverallStats(
                                   MultiLevelCache_reset(cache))]
                         ELSE runs[r]],
                    NewRun(kind, structure, caller))
  /\ active' = Len(runs) + 1

\* the first statements of a run (lines 85-94, 230-239): the flag is set,
\* the cache reset, the operations generated; the run holds the thread
StartRun(kind, structure, caller) ==
  /\ isRunning' = TRUE
  /\ cache' = MultiLevelCache_reset(cache)
  /\ runs' = Append(Overlapping, NewRun(kind, structure, caller))
  /\ active' = Len(runs) + 1

\* the dashboard's Run button (part_000 106-168, simulated mode)
ClickRun(structure) ==
  /\ active = 0
  /\ ~uiRunning
  /\ Len(runs) < MaxRuns
  /\ uiRunning' = TRUE
  /\ StartRun("runRealtimeSimulation", structure, 0)
  /\ UNCHANGED <<dsVars, now, level, last, comps>>

\* the dashboard's Compare button (part_000 171-235, simulated mode):
\* runComparativeSimulation calls runSimulation for the first structure
ClickCompare ==
  /\ active = 0
  /\ ~uiRunning
  /\ Len(runs) < MaxRuns
  /\ Len(comps) < MaxComparatives
  /\ uiRunning' = TRUE
  /\ comps' = Append(comps, [pc |-> "run", k |-> 1, results |-> <<>>])
  /\ StartRun("runSimulation", structures[1], Len(comps) + 1)
  /\ UNCHANGED <<dsVars, now, level, last>>

\* the dashboard's Stop button (part_000 238-243) calls stopSimulation
ClickStop ==
  /\ active = 0
  /\ uiRunning
  /\ isRunning' = FALSE
  /\ uiRunning' = FALSE
  /\ runs' = [r \in 1..Len(runs) |->
                IF runs[r].pc = "timer" /\ runs[r].stopped = <<>>
                  THEN [runs[r] EXCEPT !.stopped = <<runs[r].executed>>]
                  ELSE runs[r]]
  /\ UNCHANGED <<dsVars, now, level, cache, last, comps, active>>

\* the run's caller gets the result (ended = "returned") or the exception
\* (ended = "threw") of run r
Resume(r, ended) ==
  LET caller == runs[r].caller
  IN  IF caller = 0
        \* the dashboard's handler: try / catch / finally setIsRunning(false)
        THEN uiRunning' = FALSE /\ UNCHANGED comps
      ELSE IF caller \in 1..Len(comps)
        \* runComparativeSimulation: results.push, then it sleeps 100 ms;
        \* an exception leaves it and reaches the dashboard's handler
        THEN IF ended = "returned"
               THEN /\ comps' = [comps EXCEPT ![caller] =
                          [@ EXCEPT !.pc = "pause", !.results = Append(@, r)]]
                    /\ UNCHANGED uiRunning
               ELSE /\ comps' = [comps EXCEPT ![caller] =
                          [@ EXCEPT !.pc = "threw"]]
                    /\ uiRunning' = FALSE
      \* a direct caller of the simulator
      ELSE UNCHANGED <<comps, uiRunning>>

\* a run goes on: resumed by its timer (i++ follows the await) or still
\* holding the thread, it tests the loop condition and either executes the
\* next operation or returns to its caller
RunStep(r) ==
  /\ \/ active = r
     \/ active = 0 /\ runs[r].pc = "timer"
  /\ LET R == runs[r]
         i == IF R.pc = "timer" THEN R.i + 1 ELSE R.i
     IN  IF i < R.length /\ isRunning
           THEN \E operation \in FilePaths :
                LET b == LoopBody([R EXCEPT !.i = i], cache, operation, now)
                    reports == ~b.threw /\ Sleeps(R, i)
                                /\ R.kind = "runRealtimeSimulation"
                    called == IF reports
                                THEN [b.run EXCEPT
                                        !.snapshot = Snapshot(b.run, i),
                                        !.updates = Append(@,
                                          [executed |-> b.run.executed,
                                           progress |->
                                             Snapshot(b.run, i).progress])]
                                ELSE b.run
                    threw == b.threw \/ (reports /\ R.onUpdate = "throws")
                IN  /\ cache' = b.cache
                    /\ runs' = [runs EXCEPT ![r] =
                         IF threw
                           THEN [called EXCEPT
                                   !.pc = "threw",
                                   !.error = IF b.threw THEN "Unknown structure"
                                                        ELSE "onUpdate"]
                         ELSE IF Sleeps(R, i)
                           THEN [called EXCEPT !.pc = "timer"]
                           ELSE [called EXCEPT !.pc = "loop", !.i = i + 1]]
                    /\ active' = IF threw \/ Sleeps(R, i) THEN 0 ELSE r
                    /\ IF threw THEN Resume(r, "threw")
                                ELSE UNCHANGED <<comps, uiRunning>>
           ELSE /\ runs' = [runs EXCEPT ![r] =
                     [R EXCEPT !.i = i, !.pc = "returned",
                               !.result = Result(R, cache)]]
                /\ active' = 0
                /\ Resume(r, "returned")
                /\ UNCHANGED cache
  /\ UNCHANGED <<dsVars, now, level, last, isRunning>>

\* runComparativeSimulation wakes from its 100 ms sleep and starts the run
\* of the next structure
CompNext(c) ==
  /\ active = 0
  /\ comps[c].pc = "pause"
  /\ comps[c].k < Len(structures)
  /\ Len(runs) < MaxRuns
  /\ comps' = [comps EXCEPT ![c] = [@ EXCEPT !.pc = "run", !.k = @ + 1]]
  /\ StartRun("runSimulation", structures[comps[c].k + 1], c)
  /\ UNCHANGED <<dsVars, now, level, last, uiRunning>>

\* runComparativeSimulation wakes from its last sleep and returns the
\* results; the dashboard's handler ends with setIsRunning(false)
CompReturn(c) ==
  /\ active = 0
  /\ comps[c].pc = "pause"
  /\ comps[c].k = Len(structures)
  /\ comps' = [comps EXCEPT ![c] = [@ EXCEPT !.pc = "returned"]]
  /\ uiRunning' = FALSE
  /\ UNCHANGED <<dsVars, now, level, cache, last, isRunning, runs, active>>

Next ==
  \/ Tick
  \/ \E structure \in {structures[k] : k \in 1..NumSelectable} :
       ClickRun(structure)
  \/ ClickCompare
  \/ ClickStop
  \/ \E r \in 1..Len(runs) : RunStep(r)
  \/ \E c \in 1..Len(comps) : CompNext(c)
  \/ \E c \in 1..Len(comps) : CompReturn(c)

Spec == Init /\ [][Next]_vars

(***************************************************************************)
(* A direct caller of the simulator's public methods, which awaits each    *)
(* run before it starts the next and may call stopSimulation at any time.  *)
(***************************************************************************)
WorkloadSizes == <<"Small", "Medium", "Large">>

\* getOperationCount (1000, 5000, 10000 and 1000 for anything else), scaled
\* down: Small is OperationCount, each larger size one operation more
getOperationCount(workloadSize) ==
  CASE workloadSize = "Small" -> OperationCount
    [] workloadSize = "Medium" -> OperationCount + 1
    [] workloadSize = "Large" -> OperationCount + 2
    [] OTHER -> OperationCount

\* runSimulation(structure, workloadSize) or, with a callback,
\* runRealtimeSimulation(structure, workloadSize, onUpdate, UpdateInterval):
\* onUpdate is a callback that returns ("reports") or one that throws
CallRun(kind, structure, workloadSize, onUpdate) ==
  /\ active = 0
  /\ Len(runs) < MaxCalls
  /\ \A r \in 1..Len(runs) : runs[r].pc \in {"returned", "threw"}
  /\ kind = "runSimulation" => onUpdate = "reports"
  /\ isRunning' = TRUE
  /\ cache' = MultiLevelCache_reset(cache)
  /\ runs' = Append(runs, [NewRun(kind, structure, -1) EXCEPT
                             !.length = getOperationCount(workloadSize),
                             !.onUpdate = onUpdate])
  /\ active' = Len(runs) + 1
  /\ UNCHANGED <<dsVars, now, level, last, uiRunning, comps>>

\* stopSimulation()
CallStop ==
  /\ active = 0
  /\ isRunning
  /\ isRunning' = FALSE
  /\ runs' = [r \in 1..Len(runs) |->
                IF runs[r].pc = "timer" /\ runs[r].stopped = <<>>
                  THEN [runs[r] EXCEPT !.stopped = <<runs[r].executed>>]
                  ELSE runs[r]]
  /\ UNCHANGED <<dsVars, now, level, cache, last, uiRunning, comps, active>>

NextApi ==
  \/ Tick
  \/ \E kind \in {"runSimulation", "runRealtimeSimulation"},
        structure \in StructureInputs,
        workloadSize \in {WorkloadSizes[k] : k \in 1..NumWorkloads},
        onUpdate \in {"reports", "throws"} :
       CallRun(kind, structure, workloadSize, onUpdate)
  \/ CallStop
  \/ \E r \in 1..Len(runs) : RunStep(r)

SpecApi == Init /\ [][NextApi]_vars

(***************************************************************************)
(* A script that calls the simulator's methods without awaiting them.  A    *)
(* call of runSimulation executes up to its first await and hands the       *)
(* thread back to the script (active = -1); when the script ends, the       *)
(* continuations queued by the awaits of searchInStructure run in the order *)
(* they were queued, before any timer.                                      *)
(***************************************************************************)
InitSync ==
  /\ now = 0
  /\ level = NewCacheLevel(Capacity)
  /\ cache = NewMultiLevelCache
  /\ last = NoCall
  /\ isRunning = FALSE
  /\ uiRunning = FALSE
  /\ runs = <<>>
  /\ comps = <<>>
  /\ active = -1
  /\ bst = NewBinarySearchTree
  /\ hashTable = NewHashTable(HashSize)
  /\ trie = NewTrie
  /\ answer = NoAnswer
  /\ operations = NoOperations

\* the runs whose continuation is in the microtask queue
Awaiting(rs) == {r \in 1..Len(rs) : rs[r].pc = "await"}

\* the place a continuation queued now takes
NextTicket(rs) ==
  IF Awaiting(rs) = {} THEN 1
  ELSE 1 + (CHOOSE n \in {rs[r].ticket : r \in Awaiting(rs)} :
              \A r \in Awaiting(rs) : rs[r].ticket <= n)

\* the loop body up to the await (lines 97-107): cache.get and, on a miss,
\* the call of searchInStructure, whose promise the run awaits
Lookup(R, C, key, t, ticket) ==
  LET cacheResult == MultiLevelCache_get(C, key, t)
  IN  IF cacheResult.hit
        THEN [run |-> [R EXCEPT !.hits = @ + 1, !.samples = @ + 1,
                                !.executed = @ + 1],
              cache |-> cacheResult.cache, awaits |-> FALSE]
        ELSE [run |-> [R EXCEPT !.executed = @ + 1, !.queries = @ + 1,
                                !.pc = "await", !.operation = key,
                                !.ticket = ticket],
              cache |-> cacheResult.cache, awaits |-> TRUE]

\* the loop body after the await (lines 107-117)
AfterAwait(R, C, t) ==
  LET structureResult == searchInStructure(R.structure, R.operation)
  IN  [run |-> [R EXCEPT !.misses = @ + 1, !.samples = @ + 1,
                         !.operation = "", !.ticket = 0],
       cache |-> IF structureResult.found
                   THEN MultiLevelCache_put(C, R.operation,
                                            structureResult.value, t)
                   ELSE C]

\* the end of an iteration (lines 119-123): the sleep at the stride, or i++
Checkpoint(R) ==
  IF Sleeps(R, R.i) THEN [R EXCEPT !.pc = "timer"]
                    ELSE [R EXCEPT !.pc = "loop", !.i = @ + 1]

\* the script calls runSimulation(structure, 'Small') and does not await it:
\* the run resets the cache and makes its first cache.get, a miss, before
\* the call returns its promise
SyncCallRun(structure) ==
  /\ active = -1
  /\ Len(runs) < MaxSyncRuns
  /\ isRunning' = TRUE
  /\ \E operation \in FilePaths :
       LET b == Lookup(NewRun("runSimulation", structure, -1),
                       MultiLevelCache_reset(cache), operation, now,
                       NextTicket(runs))
       IN  /\ cache' = b.cache
           /\ runs' = Append(Overlapping, b.run)
  /\ UNCHANGED <<dsVars, now, level, last, uiRunning, comps, active>>

\* the script calls stopSimulation()
SyncCallStop ==
  /\ active = -1
  /\ isRunning
  /\ isRunning' = FALSE
  /\ runs' = [r \in 1..Len(runs) |->
                IF runs[r].pc \in {"await", "timer"} /\ runs[r].stopped = <<>>
                  THEN [runs[r] EXCEPT !.stopped = <<runs[r].executed>>]
                  ELSE runs[r]]
  /\ UNCHANGED <<dsVars, now, level, cache, last, uiRunning, comps, active>>

\* the script's synchronous code ends
ScriptEnd ==
  /\ active = -1
  /\ active' = 0
  /\ UNCHANGED <<dsVars, now, level, cache, last, isRunning, uiRunning, runs,
                 comps>>

\* the first continuation of the microtask queue: run r is resumed after
\* its await of searchInStructure
Microtask(r) ==
  /\ active = 0
  /\ runs[r].pc = "await"
  /\ \A q \in Awaiting(runs) : runs[r].ticket <= runs[q].ticket
  /\ LET b == AfterAwait(runs[r], cache, now)
         R == Checkpoint(b.run)
     IN  /\ cache' = b.cache
         /\ runs' = [runs EXCEPT ![r] = R]
         /\ active' = IF R.pc = "timer" THEN 0 ELSE r
  /\ UNCHANGED <<dsVars, now, level, last, isRunning, uiRunning, comps>>

\* run r goes on, holding the thread or woken by its timer once the
\* microtask queue is empty: it tests the loop condition and either makes
\* the next cache.get or returns
SyncStep(r) ==
  /\ \/ active = r
     \/ active = 0 /\ runs[r].pc = "timer" /\ Awaiting(runs) = {}
  /\ LET R == runs[r]
         i == IF R.pc = "timer" THEN R.i + 1 ELSE R.i
     IN  IF i < R.length /\ isRunning
           THEN \E operation \in FilePaths :
                LET b == Lookup([R EXCEPT !.i = i], cache, operation, now,
                                NextTicket(runs))
                    after == IF b.awaits THEN b.run ELSE Checkpoint(b.run)
                IN  /\ cache' = b.cache
                    /\ runs' = [runs EXCEPT ![r] = after]
                    /\ active' = IF after.pc = "loop" THEN r ELSE 0
           ELSE /\ runs' = [runs EXCEPT ![r] =
                     [R EXCEPT !.i = i, !.pc = "returned",
                               !.result = Result(R, cache)]]
                /\ active' = 0
                /\ UNCHANGED cache
  /\ UNCHANGED <<dsVars, now, level, last, isRunning, uiRunning, comps>>

NextSync ==
  \/ Tick
  \/ \E structure \in {structures[k] : k \in 1..NumSelectable} :
       SyncCallRun(structure)
  \/ SyncCallStop
  \/ ScriptEnd
  \/ \E r \in 1..Len(runs) : Microtask(r)
  \/ \E r \in 1..Len(runs) : SyncStep(r)

SpecSync == InitSync /\ [][NextSync]_vars

(***************************************************************************)
(* A caller of the three data structures that applies every insert to all  *)
(* of them (as populateDataStructures does) and every search to all of     *)
(* them.                                                                   *)
(***************************************************************************)
\* the items a HashTable holds
RECURSIVE CountItems(_, _)
CountItems(H, index) ==
  IF index > H.size THEN 0
  ELSE Len(H.buckets[index]) + CountItems(H, index + 1)

\* the values a caller inserts: value is of type any, null included
ValueInputs == Values \cup {Null}

Insert(key, value) ==
  /\ ~(/\ Find(hashTable.buckets[HashTable_hash(hashTable, key) + 1], key) = 0
       /\ CountItems(hashTable, 1) >= MaxInserts)
  /\ bst' = BinarySearchTree_insert(bst, key, value)
  /\ hashTable' = HashTable_insert(hashTable, key, value)
  /\ trie' = Trie_insert(trie, key, value)
  /\ answer' = [op |-> "insert", key |-> key, value |-> value,
                present |-> HashTable_search(hashTable, key).found,
                old |-> HashTable_search(hashTable, key).value]
  /\ UNCHANGED <<now, level, cache, last, simVars, operations>>

Search(key) ==
  /\ bst.accessCount < MaxSearches
  /\ LET b == BinarySearchTree_search(bst, key)
         h == HashTable_search(hashTable, key)
         t == Trie_search(trie, key)
     IN  /\ bst' = b.tree
         /\ hashTable' = h.table
         /\ trie' = t.trie
         /\ answer' = [op |-> "search", key |-> key,
                       bst |-> [found |-> b.found, value |-> b.value],
                       hashTable |-> [found |-> h.found, value |-> h.value],
                       trie |-> [found |-> t.found, value |-> t.value]]
  /\ UNCHANGED <<now, level, cache, last, simVars, operations>>

NextStructures ==
  \/ \E key \in Strings, value \in ValueInputs : Insert(key, value)
  \/ \E key \in Strings : Search(key)

SpecStructures == Init /\ [][NextStructures]_vars

(***************************************************************************)
(* The simulator's corpus and the workload generateOperations draws from   *)
(* it.  Math.random() takes the values 0.0, 0.1 .. 0.9 with equal weight.   *)
(***************************************************************************)
RecordNames == <<"record1", "record2", "record3", "record4", "record5",
                 "record6", "record7", "record8">>

\* the path of record i: `/${directory}/${baseName}_${i}${extension}` differs
\* from the path of every other record in the digits of i, here written in
\* the characters of the model
RECURSIVE PathOf(_)
PathOf(i) ==
  IF i = 0 THEN <<>>
  ELSE LET digit == ((i - 1) % NumChars) + 1
       IN  Append(PathOf((i - digit) \div NumChars), digit)

\* generateFileRecords: NumRecords records (10000 in the code) in creation
\* order
fileRecords ==
  [i \in 1..NumRecords |-> [id |-> RecordNames[i], path |-> PathOf(i)]]

\* populateDataStructures: every record is inserted into the three
\* structures under its path
RECURSIVE populateDataStructures(_, _)
populateDataStructures(S, i) ==
  IF i > Len(fileRecords) THEN S
  ELSE LET record == fileRecords[i]
       IN  populateDataStructures(
             [bst |-> BinarySearchTree_insert(S.bst, record.path, record.id),
              hashTable |-> HashTable_insert(S.hashTable, record.path,
                                             record.id),
              trie |-> Trie_insert(S.trie, record.path, record.id)],
             i + 1)

\* the state after new FileAccessSimulator()
InitSimulator ==
  LET S == populateDataStructures(
             [bst |-> NewBinarySearchTree, hashTable |-> NewHashTable(HashSize),
              trie |-> NewTrie], 1)
  IN  /\ now = 0
      /\ level = NewCacheLevel(Capacity)
      /\ cache = NewMultiLevelCache
      /\ last = NoCall
      /\ isRunning = FALSE
      /\ uiRunning = FALSE
      /\ runs = <<>>
      /\ comps = <<>>
      /\ active = 0
      /\ bst = S.bst
      /\ hashTable = S.hashTable
      /\ trie = S.trie
      /\ answer = NoAnswer
      /\ operations = NoOperations

\* the values Math.random() takes, in tenths
RandomTenths == 0..9

\* Math.floor(this.fileRecords.length * 0.2)
PopularCount == (Len(fileRecords) * 2) \div 10

\* mutant of popularFiles: the last fifth of the records
popularFiles_LastFifth ==
  SubSeq(fileRecords, Len(fileRecords) - PopularCount + 1, Len(fileRecords))

\* fileRecords.slice(0, Math.floor(fileRecords.length * 0.2))
popularFiles == SubSeq(fileRecords, 1, PopularCount)

\* fileRecords.slice(Math.floor(fileRecords.length * 0.2))
regularFiles == SubSeq(fileRecords, PopularCount + 1, Len(fileRecords))

\* Math.random() < 0.8
DrawsPopular(random) == random < 8

\* files[Math.floor(Math.random() * files.length)]
Pick(files, random) == files[((random * Len(files)) \div 10) + 1]

\* generateOperations(count) is entered with an empty array
generateOperations(workloadSize) ==
  /\ operations.pc \in {"none", "returned"}
  /\ operations' = [pc |-> "loop", count |-> getOperationCount(workloadSize),
                    paths |-> <<>>, random |-> <<>>]
  /\ UNCHANGED <<now, level, cache, last, simVars, bst, hashTable, trie, answer>>

\* one iteration of its loop (lines 158-169): random decides the subset,
\* index the file within it
Draw(random, index) ==
  /\ operations.pc = "loop"
  /\ Len(operations.paths) < operations.count
  /\ LET file == IF DrawsPopular(random) THEN Pick(popularFiles, index)
                                         ELSE Pick(regularFiles, index)
     IN  operations' = [operations EXCEPT !.paths = Append(@, file.path),
                                          !.random = Append(@, random)]
  /\ UNCHANGED <<now, level, cache, last, simVars, bst, hashTable, trie, answer>>

\* the loop condition i < count fails: the array is returned
Return ==
  /\ operations.pc = "loop"
  /\ ~(Len(operations.paths) < operations.count)
  /\ operations' = [operations EXCEPT !.pc = "returned"]
  /\ UNCHANGED <<now, level, cache, last, simVars, bst, hashTable, trie, answer>>

NextWorkload ==
  \/ \E workloadSize \in {WorkloadSizes[k] : k \in 1..NumWorkloads} :
       generateOperations(workloadSize)
  \/ \E random \in RandomTenths, index \in RandomTenths : Draw(random, index)
  \/ Return

SpecWorkload == InitSimulator /\ [][NextWorkload]_vars

(***************************************************************************)
(* Claims about CacheLevel, checked under SpecLevel.                       *)
(***************************************************************************)
\* the smallest timestamp held by an entry of the Map
IsOldest(entries, key) ==
  /\ Has(entries, key)
  /\ \A n \in 1..Len(entries) :
       entries[IndexOf(entries, key)].timestamp <= entries[n].timestamp

\* C1: after any sequence of get, put and reset the level never holds more
\* entries than its capacity.
C1_OccupancyWithinCapacity == Len(level.cache) <= level.capacity

\* C2: a put of an absent key into a full level evicts exactly one entry,
\* the one with the oldest timestamp, and adds one to the evictions counter.
C2_FullPutEvictsOldest ==
  [][\A key \in Keys, value \in Values :
       (LevelPut(key, value) /\ ~Has(level.cache, key)
          /\ Len(level.cache) >= level.capacity)
       => /\ \E victim \in KeysOf(level.cache) :
               /\ IsOldest(level.cache, victim)
               /\ KeysOf(level'.cache) =
                    (KeysOf(level.cache) \ {victim}) \cup {key}
          /\ level'.evictions = level.evictions + 1]_vars

\* C3: a put of a key that is present replaces its value and timestamp and
\* leaves the set of keys, the size and the evictions counter as they were,
\* also in a full level; and no key is ever held twice.
C3_PutPresentKeyRefreshes ==
  [][/\ Cardinality(KeysOf(level'.cache)) = Len(level'.cache)
     /\ \A key \in Keys, value \in Values :
          (LevelPut(key, value) /\ Has(level.cache, key))
          => /\ Len(level'.cache) = Len(level.cache)
             /\ KeysOf(level'.cache) = KeysOf(level.cache)
             /\ level'.evictions = level.evictions
             /\ level'.cache[IndexOf(level'.cache, key)].value = value
             /\ level'.cache[IndexOf(level'.cache, key)].timestamp = now]_vars

\* a put of a present key into a full level has been made
C3_Witness ==
  /\ last.op = "put"
  /\ last.present
  /\ last.size >= level.capacity
  /\ Has(level.cache, last.key)

(***************************************************************************)
(* Claims about MultiLevelCache, checked under SpecCache.                  *)
(***************************************************************************)
\* the value a level holds for a key it holds
ValueIn(L, key) == L.cache[IndexOf(L.cache, key)].value

\* what the next get of the last call's key would return, at any later time
NextGetOfLastKey(t) == MultiLevelCache_get(cache, last.key, t)

\* C4: a get that hits in L2 leaves the entry in L2 and copies it into L1, a
\* get that hits in L3 leaves it in L3 and copies it into L2 and L1, and the
\* next get of that key is an L1 hit returning the same value.
C4_PromotionOnHit ==
  (last.op = "get" /\ last.lvl \in {"L2", "L3"})
  => /\ Has(cache.l1Cache.cache, last.key)
     /\ ValueIn(cache.l1Cache, last.key) = last.ret
     /\ Has(cache.l2Cache.cache, last.key)
     /\ ValueIn(cache.l2Cache, last.key) = last.ret
     /\ last.lvl = "L3" =>
          /\ Has(cache.l3Cache.cache, last.key)
          /\ ValueIn(cache.l3Cache, last.key) = last.ret
     /\ \A t \in now..MaxTime :
          /\ NextGetOfLastKey(t).hit
          /\ NextGetOfLastKey(t).level = "L1"
          /\ NextGetOfLastKey(t).value = last.ret

\* a get has hit in L3 with the key absent from L1 and L2, both full
C4_Witness ==
  /\ last.op = "get"
  /\ last.lvl = "L3"
  /\ ~last.in1 /\ ~last.in2
  /\ Len(cache.l1Cache.cache) >= L1Capacity
  /\ cache.l2Cache.evictions > 0

\* C5: put(k, v) leaves k with value v in L1, L2 and L3, so the next get(k)
\* is a hit at 'L1' returning v; a get on a cache whose tiers are all empty
\* is a miss at 'Memory'.
C5_WriteThroughPut ==
  /\ last.op = "put" =>
       /\ \A L \in {cache.l1Cache, cache.l2Cache, cache.l3Cache} :
            Has(L.cache, last.key) /\ ValueIn(L, last.key) = last.value
       /\ \A t \in now..MaxTime :
            /\ NextGetOfLastKey(t).hit
            /\ NextGetOfLastKey(t).level = "L1"
            /\ NextGetOfLastKey(t).value = last.value
  /\ \A key \in Keys :
       (/\ cache.l1Cache.cache = <<>>
        /\ cache.l2Cache.cache = <<>>
        /\ cache.l3Cache.cache = <<>>)
       => /\ ~MultiLevelCache_get(cache, key, now).hit
          /\ MultiLevelCache_get(cache, key, now).level = "Memory"

\* a key that an eviction had removed from L1 (it was still in L2 and L3)
\* has been put again
C5_Witness ==
  /\ last.op = "put"
  /\ ~last.in1 /\ last.in2 /\ last.in3
  /\ cache.l1Cache.evictions > 0

\* C6: get reports the fastest tier that holds the key, 'Memory' with
\* hit = false and value null when none does, and an L1 hit leaves L2 and L3
\* (entries and counters) as they were.
C6_FastestTierReported ==
  [][\A key \in Keys :
       CacheGet(key) =>
         /\ last'.lvl = IF Has(cache.l1Cache.cache, key) THEN "L1"
                        ELSE IF Has(cache.l2Cache.cache, key) THEN "L2"
                        ELSE IF Has(cache.l3Cache.cache, key) THEN "L3"
                        ELSE "Memory"
         /\ last'.hit = (last'.lvl # "Memory")
         /\ last'.lvl = "Memory" => last'.ret = Null
         /\ last'.lvl = "L1" => last'.ret = ValueIn(cache.l1Cache, key)
         /\ last'.lvl = "L2" => last'.ret = ValueIn(cache.l2Cache, key)
         /\ last'.lvl = "L3" => last'.ret = ValueIn(cache.l3Cache, key)
         /\ Has(cache.l1Cache.cache, key) =>
              /\ cache'.l2Cache = cache.l2Cache
              /\ cache'.l3Cache = cache.l3Cache]_vars

\* a get has hit in L1 a key that L2 no longer holds
C6_Witness ==
  /\ last.op = "get"
  /\ last.lvl = "L1"
  /\ last.in1 /\ ~last.in2

\* C7: a get that misses all three tiers leaves their entries as they were,
\* and a key enters a tier only by a put of it or by a get of it that hits.
C7_MissLeavesEntries ==
  [][/\ \A key \in Keys :
          (/\ CacheGet(key)
           /\ ~Has(cache.l1Cache.cache, key)
           /\ ~Has(cache.l2Cache.cache, key)
           /\ ~Has(cache.l3Cache.cache, key))
          => /\ cache'.l1Cache.cache = cache.l1Cache.cache
             /\ cache'.l2Cache.cache = cache.l2Cache.cache
             /\ cache'.l3Cache.cache = cache.l3Cache.cache
     /\ \A key \in (KeysOf(cache'.l1Cache.cache) \ KeysOf(cache.l1Cache.cache))
                \cup (KeysOf(cache'.l2Cache.cache) \ KeysOf(cache.l2Cache.cache))
                \cup (KeysOf(cache'.l3Cache.cache) \ KeysOf(cache.l3Cache.cache)) :
          \/ \E value \in Values : CachePut(key, value)
          \/ CacheGet(key) /\ last'.hit]_vars

\* a get has missed all three tiers of a cache that holds other keys
C7_Witness ==
  /\ last.op = "get"
  /\ last.lvl = "Memory"
  /\ cache.l1Cache.cache # <<>>
  /\ cache.l3Cache.misses > 0

(***************************************************************************)
(* Claims about the runs of FileAccessSimulator, checked under Spec.       *)
(***************************************************************************)
\* the counts of a result or snapshot x agree: hits and misses of run R add
\* up to operationsPerformed and to the number of latency samples, and the
\* two rates add up to 100 when an operation was performed
CountsAgree(R, x) ==
  /\ R.hits + R.misses = x.operationsPerformed
  /\ x.operationsPerformed = x.samples
  /\ x.operationsPerformed > 0 =>
       /\ x.hitRate.den = x.missRate.den
       /\ x.hitRate.num + x.missRate.num = 100 * x.hitRate.den

\* C8: for every run that has returned, completed or cancelled, hits +
\* misses equals operationsPerformed and the number of latency samples, and
\* hitRate + missRate is 100 whenever operationsPerformed > 0; the same
\* holds for the snapshot handed to the progress callback (a run sleeping
\* in its timer with a snapshot has just handed it out)
C8_CountsAgree ==
  \A r \in 1..Len(runs) :
    /\ runs[r].pc = "returned" => CountsAgree(runs[r], runs[r].result)
    /\ (runs[r].pc = "timer" /\ runs[r].snapshot # NoSnapshot) =>
         CountsAgree(runs[r], runs[r].snapshot)

\* a cancelled progress-reporting run and a completed runSimulation have
\* returned, each after cache hits and misses, a snapshot was handed out
C8_Witness ==
  \E r, q \in 1..Len(runs) :
    /\ runs[r].pc = "returned" /\ runs[r].kind = "runRealtimeSimulation"
    /\ runs[r].snapshot # NoSnapshot
    /\ runs[r].result.operationsPerformed > 0
    /\ runs[r].result.operationsPerformed < runs[r].length
    /\ runs[q].pc = "returned" /\ runs[q].kind = "runSimulation"
    /\ runs[q].hits > 0 /\ runs[q].misses > 0
    /\ runs[q].result.operationsPerformed = runs[q].length

\* C9: a run that was in progress when stopSimulation was called returns a
\* result that counts exactly the operations completed before the call
C9_StopCountsExactly ==
  \A r \in 1..Len(runs) :
    (runs[r].pc = "returned" /\ runs[r].stopped # <<>>) =>
      runs[r].result.operationsPerformed = runs[r].stopped[1]

\* C10: the running flag is set only while a run is active: once every run
\* and every comparative simulation has returned, the flag is reset
C10_RunningOnlyWhileActive ==
  isRunning =>
    \/ \E r \in 1..Len(runs) : runs[r].pc # "returned"
    \/ \E c \in 1..Len(comps) : comps[c].pc # "returned"

\* a cache tier as the constructor and reset leave it: no entry, counters 0
FreshLevel(L) ==
  L.cache = <<>> /\ L.hits = 0 /\ L.misses = 0 /\ L.evictions = 0

FreshCache(C) ==
  /\ FreshLevel(C.l1Cache) /\ FreshLevel(C.l2Cache) /\ FreshLevel(C.l3Cache)
  /\ C.memoryAccesses = 0

\* the runs comparative simulation c has started, in the order of starting
RunsOf(c) ==
  SelectSeq([r \in 1..Len(runs) |-> r], LAMBDA r : runs[r].caller = c)

\* comparative simulation c has run structures[1..k] in that order, one run
\* at a time, and its results are those of the runs that have returned
Sequential(c) ==
  LET started == RunsOf(c)
  IN  /\ Len(started) = comps[c].k
      /\ \A j \in 1..Len(started) :
           /\ runs[started[j]].structure = structures[j]
           /\ runs[started[j]].kind = "runSimulation"
           /\ j < Len(started) => runs[started[j]].pc = "returned"
      /\ comps[c].results =
           SelectSeq(started, LAMBDA r : runs[r].pc = "returned")
      /\ comps[c].pc = "returned" => Len(comps[c].results) = Len(structures)

\* C11: runComparativeSimulation runs BST, Hash and Trie one after another,
\* a run starting only after the previous one has returned, and returns
\* exactly three results in that order; when each of its runs starts every
\* cache tier is empty and all cache counters are zero
C11_ComparativeSequentialFresh ==
  [][/\ \A c \in 1..Len(comps') : Sequential(c)'
     /\ (Len(runs') > Len(runs) /\ runs'[Len(runs')].caller # 0) =>
          FreshCache(cache')]_vars

\* a comparative simulation has returned its three results, and the cache
\* its first run left behind had been accessed
C11_Witness ==
  \E c \in 1..Len(comps) :
    /\ comps[c].pc = "returned"
    /\ Len(comps[c].results) = 3
    /\ runs[comps[c].results[1]].result.cacheStats.overall.memoryAccesses > 0
    /\ runs[comps[c].results[3]].structure = "Trie"

\* C12: runs on one simulator never overlap: while a run has reset the cache
\* and not yet returned, no other run has started on that cache
C12_RunsNeverOverlap ==
  \A r, q \in 1..Len(runs) :
    (runs[r].pc # "returned" /\ runs[q].pc # "returned") => r = q

(***************************************************************************)
(* Claims about runs a direct caller starts, checked under SpecApi.        *)
(***************************************************************************)
\* C13: a run requested with a structure identifier other than BST, Hash or
\* Trie fails before any work starts: when the error reaches the caller no
\* cache lookup has been made, no cache counter has changed and the engine
\* is not in the Running state
C13_UnknownStructureFailsFast ==
  \A r \in 1..Len(runs) :
    (runs[r].pc = "threw" /\ runs[r].error = "Unknown structure") =>
      /\ runs[r].executed = 0
      /\ cache.memoryAccesses = 0
      /\ ~isRunning

(***************************************************************************)
(* Claims about the construction of a CacheLevel, checked under            *)
(* SpecConstruct.                                                          *)
(***************************************************************************)
\* C14: no CacheLevel with a capacity of zero or less exists and has
\* accepted a put
C14_NonPositiveCapacityRejected ==
  ~(level.capacity <= 0 /\ last.op = "put" /\ Has(level.cache, last.key))

\* C15: a progress callback that throws never aborts the run: no run ends
\* with the callback's exception
C15_CallbackFailureCaught ==
  \A r \in 1..Len(runs) :
    runs[r].onUpdate = "throws" =>
      ~(runs[r].pc = "threw" /\ runs[r].error = "onUpdate")

\* C16: in a progress-reporting run the callback is invoked at most once per
\* UpdateInterval operations, and the percentages passed to successive
\* invocations are non-decreasing and lie between 0 and 100
C16_ProgressStrideMonotone ==
  \A r \in 1..Len(runs) :
    LET u == runs[r].updates
    IN  /\ \A j \in 1..Len(u) :
             /\ u[j].progress.den > 0
             /\ 0 <= u[j].progress.num
             /\ u[j].progress.num <= 100 * u[j].progress.den
        /\ \A j \in 1..(Len(u) - 1) :
             /\ u[j + 1].executed - u[j].executed >= UpdateInterval
             /\ u[j].progress.num * u[j + 1].progress.den
                  <= u[j + 1].progress.num * u[j].progress.den

\* a progress-reporting run has returned after two invocations of its
\* callback
C16_Witness ==
  \E r \in 1..Len(runs) :
    /\ runs[r].kind = "runRealtimeSimulation"
    /\ runs[r].pc = "returned"
    /\ Len(runs[r].updates) >= 2
    /\ runs[r].updates[2].progress.num > 0

\* every rate and latency of result x is 0, and so is its throughput
AllZero(x) ==
  /\ x.hitRate.num = 0 /\ x.missRate.num = 0
  /\ x.avgLatency.num = 0 /\ x.minLatency = 0 /\ x.maxLatency = 0
  /\ x.throughput.num = 0

\* the throughput of result x is a number that is not negative (a zero
\* denominator is Infinity or NaN), and 0 when no time has elapsed
ThroughputDefined(x) ==
  /\ x.throughput.den > 0
  /\ x.throughput.num >= 0
  /\ x.totalTime = 0 => x.throughput.num = 0

\* C17: a run that performs zero operations returns a result whose hitRate,
\* missRate, avgLatency, minLatency, maxLatency and throughput are all 0;
\* throughput is never negative, infinite or NaN, and is 0 when the elapsed
\* time is 0.  The first conjunct is about the result the return statement
\* computes from the locals of a run as they are before the first operation
C17_ZeroOperationsResult ==
  \A r \in 1..Len(runs) :
    /\ LET x == Result([runs[r] EXCEPT !.hits = 0, !.misses = 0, !.samples = 0],
                       cache)
       IN  x.operationsPerformed = 0 /\ AllZero(x) /\ ThroughputDefined(x)
    /\ runs[r].pc = "returned" =>
         /\ runs[r].result.operationsPerformed = 0 => AllZero(runs[r].result)
         /\ ThroughputDefined(runs[r].result)

\* a run has returned operations performed in no elapsed time, and another
\* clock value lies between the start of a run and the present
C17_Witness ==
  \E r \in 1..Len(runs) :
    /\ runs[r].pc = "returned"
    /\ runs[r].result.totalTime = 0
    /\ runs[r].result.operationsPerformed > 0
    /\ runs[r].result.throughput.num = 0
    /\ now > runs[r].startTime

(***************************************************************************)
(* Claims about the data structures, checked under SpecStructures.         *)
(***************************************************************************)
\* C18: after the same inserts, search(q) returns the same found flag and
\* the same value from the BinarySearchTree, the HashTable and the Trie
C18_BackendsAgree ==
  answer.op = "search" =>
    /\ answer.bst = answer.hashTable
    /\ answer.hashTable = answer.trie

\* the number of nodes of a BinarySearchTree
RECURSIVE CountNodes(_)
CountNodes(node) ==
  IF node = <<>> THEN 0 ELSE 1 + CountNodes(node[3]) + CountNodes(node[4])

\* the number of keys a Trie stores
CountWords(T) == Cardinality({p \in DOMAIN T.nodes : T.nodes[p].isEndOfWord})

\* inserting key with value into each structure, as they are now, stores
\* value under key; a second insert of the same pair changes nothing, and
\* the insert adds an entry only if the key was not there
InsertReplaces(key, value) ==
  LET b == BinarySearchTree_insert(bst, key, value)
      h == HashTable_insert(hashTable, key, value)
      t == Trie_insert(trie, key, value)
      added == IF Find(hashTable.buckets[HashTable_hash(hashTable, key) + 1],
                       key) = 0 THEN 1 ELSE 0
  IN  /\ BinarySearchTree_search(b, key).value = value
      /\ HashTable_search(h, key).value = value
      /\ Trie_search(t, key).value = value
      /\ BinarySearchTree_insert(b, key, value) = b
      /\ HashTable_insert(h, key, value).buckets = h.buckets
      /\ Trie_insert(t, key, value) = t
      /\ CountNodes(b.root) = CountNodes(bst.root) + added
      /\ CountItems(h, 1) = CountItems(hashTable, 1) + added
      /\ CountWords(t) = CountWords(trie) + added

\* C19: for each structure, inserting a key that is already present replaces
\* its value and adds no second entry: a later search returns the most
\* recently inserted value, and inserting the same pair twice leaves the
\* stored mapping as after inserting it once
C19_InsertReplaces ==
  \A key \in Strings, value \in ValueInputs : InsertReplaces(key, value)

\* a key stored with one value has been inserted again with another, in a
\* bucket that holds two items
C19_Witness ==
  /\ answer.op = "insert"
  /\ answer.present /\ answer.old # answer.value
  /\ CountItems(hashTable, 1) = 2
  /\ Len(hashTable.buckets[HashTable_hash(hashTable, answer.key) + 1]) = 2
  /\ hashTable.buckets[HashTable_hash(hashTable, answer.key) + 1][2].key
       = answer.key
  /\ CountNodes(bst.root) = 2
  /\ CountWords(trie) = 2
  /\ answer.value = ValueNames[2]

\* C20: Trie.search(key) reports found = true only if key itself was
\* inserted, and a miss returns value null: nothing is found in a new Trie,
\* and an insert makes exactly its own key found
C20_TrieFoundOnlyInserted ==
  [][/\ trie = NewTrie =>
          \A q \in Strings : ~Trie_search(trie, q).found
     /\ \A q \in Strings :
          ~Trie_search(trie', q).found => Trie_search(trie', q).value = Null
     /\ answer'.op = "insert" =>
          \A q \in Strings :
            Trie_search(trie', q).found <=>
              (q = answer'.key \/ Trie_search(trie, q).found)]_vars

\* a search has missed a key that is a proper prefix of an inserted key, in
\* a Trie where the traversal of another key stops at a missing child
C20_Witness ==
  /\ answer.op = "search"
  /\ answer.key # <<>>
  /\ answer.key \in DOMAIN trie.nodes
  /\ ~trie.nodes[answer.key].isEndOfWord
  /\ ~answer.trie.found /\ answer.trie.value = Null
  /\ \E q \in Strings : q \notin DOMAIN trie.nodes

(***************************************************************************)
(* Further claims about MultiLevelCache, checked under SpecCache.          *)
(***************************************************************************)
\* C22: memoryAccesses is incremented only by a get that misses L1, L2 and
\* L3, so it equals the L3 miss count
C22_MemoryAccessesCountsFullMisses ==
  cache.memoryAccesses = cache.l3Cache.misses

\* C25: every key held in L1 is also held in L2, and every key held in L2 is
\* also held in L3
C25_HierarchyInclusive ==
  /\ \A key \in Keys :
       Has(cache.l1Cache.cache, key) => Has(cache.l2Cache.cache, key)
  /\ \A key \in Keys :
       Has(cache.l2Cache.cache, key) => Has(cache.l3Cache.cache, key)

\* C27: the tier counters chain: L1 hits + misses = memoryAccesses, L2 hits
\* + misses = L1 misses, L3 hits + misses = L2 misses, and the totalAccesses
\* of getOverallStats = memoryAccesses
C27_CountersChain ==
  /\ cache.l1Cache.hits + cache.l1Cache.misses = cache.memoryAccesses
  /\ cache.l2Cache.hits + cache.l2Cache.misses = cache.l1Cache.misses
  /\ cache.l3Cache.hits + cache.l3Cache.misses = cache.l2Cache.misses
  /\ MultiLevelCache_getOverallStats(cache).overall.totalAccesses
       = cache.memoryAccesses

\* a get has hit in L3 and the next one in L1
C27_Witness ==
  /\ cache.memoryAccesses = 2
  /\ cache.l3Cache.hits = 1
  /\ cache.l1Cache.hits = 1
  /\ cache.l2Cache.misses = 1

\* the values the tiers of C hold for key
HeldIn(L, key) == IF Has(L.cache, key) THEN {ValueIn(L, key)} ELSE {}

ValuesOf(C, key) ==
  HeldIn(C.l1Cache, key) \cup HeldIn(C.l2Cache, key) \cup HeldIn(C.l3Cache, key)

\* C28: every tier that holds a key holds the value of the most recent put
\* of that key: a put leaves its value in every tier, any other step leaves
\* in the tiers only a value that some tier held for the key before, and the
\* tiers that hold a key hold one value for it
C28_NoStaleValue ==
  [][/\ last'.op = "put" =>
          /\ Has(cache'.l1Cache.cache, last'.key)
          /\ Has(cache'.l2Cache.cache, last'.key)
          /\ Has(cache'.l3Cache.cache, last'.key)
          /\ ValuesOf(cache', last'.key) = {last'.value}
     /\ \A key \in Keys :
          /\ Cardinality(ValuesOf(cache', key)) <= 1
          /\ (~(last'.op = "put" /\ last'.key = key)) =>
                ValuesOf(cache', key) \subseteq ValuesOf(cache, key)]_vars

\* a key that every tier held with one value has been put with another
C28_Witness ==
  /\ last.op = "put"
  /\ last.in1 /\ last.in2 /\ last.in3
  /\ last.old # Null /\ last.old # last.value

(***************************************************************************)
(* Further claims about the runs of FileAccessSimulator, checked under     *)
(* Spec.                                                                   *)
(***************************************************************************)
\* the next operation of run R, were it for key: a hit leaves the structure
\* unqueried and the cache as the get left it; a miss queries the structure
\* once and puts the key into the cache exactly if the structure found it
OperationQueries(R, key) ==
  LET cacheResult == MultiLevelCache_get(cache, key, now)
      found == searchInStructure(R.structure, key).found
      b == LoopBody(R, cache, key, now)
  IN  /\ cacheResult.hit =>
           b.run.queries = R.queries /\ b.cache = cacheResult.cache
      /\ ~cacheResult.hit =>
           /\ b.run.queries = R.queries + 1
           /\ found => /\ b.cache = MultiLevelCache_put(cacheResult.cache, key,
                                      searchInStructure(R.structure, key).value,
                                      now)
                       /\ Has(b.cache.l1Cache.cache, key)
           /\ ~found => /\ b.cache = cacheResult.cache
                        /\ ~Has(b.cache.l1Cache.cache, key)
                        /\ ~Has(b.cache.l2Cache.cache, key)
                        /\ ~Has(b.cache.l3Cache.cache, key)

\* C21: for each operation of a run, on a cache hit the structure is not
\* queried; on a miss it is queried exactly once and the key is put into
\* the cache if and only if the structure found it.  The operations of a
\* run are paths the structure holds, so the operation for a key it does not
\* hold ('') is the loop body applied to that key
C21_BackendQueriedOnMiss ==
  \A r \in 1..Len(runs) :
    /\ runs[r].queries = runs[r].misses
    /\ runs[r].hits + runs[r].queries = runs[r].executed
    /\ \A key \in Keys : OperationQueries(runs[r], key)

\* a run has returned after hits and misses, and the cache holds what the
\* misses put there
C21_Witness ==
  \E r \in 1..Len(runs) :
    /\ runs[r].pc = "returned"
    /\ runs[r].hits > 0 /\ runs[r].queries > 0
    /\ \E key \in FilePaths : Has(cache.l1Cache.cache, key)

\* C24: a SimulationResult a run has returned is never changed afterwards,
\* neither by later runs nor by resets of or accesses to the cache, its
\* cacheStats included; the results runComparativeSimulation has collected
\* stay as they were pushed
C24_ResultImmutable ==
  [][/\ \A r \in 1..Len(runs) :
          runs[r].pc = "returned" =>
            /\ r <= Len(runs')
            /\ runs'[r].pc = "returned"
            /\ runs'[r].result = runs[r].result
     /\ \A c \in 1..Len(comps) :
          /\ c <= Len(comps')
          /\ Len(comps'[c].results) >= Len(comps[c].results)
          /\ SubSeq(comps'[c].results, 1, Len(comps[c].results))
               = comps[c].results]_vars

\* a run has returned its result, and a later run has since reset the cache
\* and made accesses of its own: the cache's counters differ from the
\* snapshot in the result
C24_Witness ==
  \E r \in 1..Len(runs) : \E q \in 1..Len(runs) :
    /\ r < q
    /\ runs[r].pc = "returned"
    /\ runs[r].result.operationsPerformed > 0
    /\ runs[q].executed > 0
    /\ runs[r].result.cacheStats # MultiLevelCache_getOverallStats(cache)

\* C29: stopSimulation affects only the runs in progress when it is called.
\* A run during which it was not called performs all its operations,
\* whatever was called before the run started (in the pause of
\* runComparativeSimulation or during an earlier structure's run), and while
\* such a run is in progress the flag is set
C29_StopAffectsActiveRunOnly ==
  \A r \in 1..Len(runs) :
    /\ (runs[r].pc = "returned" /\ runs[r].stopped = <<>>) =>
         runs[r].result.operationsPerformed = runs[r].length
    /\ (runs[r].pc = "timer" /\ runs[r].stopped = <<>>) => isRunning

\* a comparative simulation has returned: stopSimulation was called during
\* its first structure's run, which ended early, and the two structures
\* after it each performed their full workload
C29_Witness ==
  \E c \in 1..Len(comps) :
    /\ comps[c].pc = "returned"
    /\ \E r \in 1..Len(runs) :
         /\ runs[r].caller = c /\ runs[r].structure = structures[1]
         /\ runs[r].stopped # <<>>
         /\ runs[r].result.operationsPerformed < runs[r].length
    /\ \A k \in 2..Len(structures) : \E r \in 1..Len(runs) :
         /\ runs[r].caller = c /\ runs[r].structure = structures[k]
         /\ runs[r].stopped = <<>>
         /\ runs[r].result.operationsPerformed = runs[r].length

\* C30: the cacheStats in the result of a run that no other run overlapped
\* agree with the run's own counters: the hits of the three tiers add up to
\* the run's hits, the L3 misses are its misses, memoryAccesses is its
\* operationsPerformed and the overall hit rate is its hitRate
C30_CacheStatsAgree ==
  \A r \in 1..Len(runs) :
    (runs[r].pc = "returned" /\ ~runs[r].overlapped) =>
      LET stats == runs[r].result.cacheStats
      IN  /\ stats.l1.hits + stats.l2.hits + stats.l3.hits = runs[r].hits
          /\ stats.l3.misses = runs[r].misses
          /\ stats.overall.memoryAccesses = runs[r].result.operationsPerformed
          /\ stats.overall.hitRate = runs[r].result.hitRate

\* a run that followed an earlier run, overlapped with none and returned
\* after a hit and a miss
C30_Witness ==
  \E r \in 2..Len(runs) :
    /\ runs[r].pc = "returned" /\ ~runs[r].overlapped
    /\ runs[r - 1].result.operationsPerformed > 0
    /\ runs[r].hits > 0 /\ runs[r].misses > 0

(***************************************************************************)
(* Claim about generateOperations, checked under SpecWorkload.             *)
(***************************************************************************)
PathsOf(files) == {files[k].path : k \in 1..Len(files)}

\* the record is what each of the three structures returns for its path
HeldByAll(record) ==
  LET b == BinarySearchTree_search(bst, record.path)
      h == HashTable_search(hashTable, record.path)
      t == Trie_search(trie, record.path)
  IN  /\ b.found /\ b.value = record.id
      /\ h.found /\ h.value = record.id
      /\ t.found /\ t.value = record.id

\* C23: a generated workload has exactly the requested length and every
\* element is the path of a corpus record that all three structures hold;
\* each element is drawn from the popular subset when Math.random() < 0.8,
\* which has probability 0.8, and from the remaining records otherwise; the
\* popular subset is exactly the first 20% of the records in creation order,
\* and the two subsets are disjoint and together cover the corpus
C23_WorkloadFromCorpus ==
  /\ operations.pc = "returned" => Len(operations.paths) = operations.count
  /\ Len(operations.paths) <= operations.count
  /\ \A k \in 1..Len(operations.paths) :
       /\ \E i \in 1..Len(fileRecords) :
            /\ fileRecords[i].path = operations.paths[k]
            /\ HeldByAll(fileRecords[i])
       /\ operations.random[k] < 8 =>
            operations.paths[k] \in PathsOf(popularFiles)
       /\ operations.random[k] >= 8 =>
            operations.paths[k] \in PathsOf(regularFiles)
  /\ Cardinality({random \in RandomTenths : DrawsPopular(random)}) * 10
       = 8 * Cardinality(RandomTenths)
  /\ Len(popularFiles) * 5 <= Len(fileRecords)
  /\ Len(fileRecords) < (Len(popularFiles) + 1) * 5
  /\ \A k \in 1..Len(popularFiles) : popularFiles[k] = fileRecords[k]
  /\ \A k \in 1..Len(regularFiles) :
       regularFiles[k] = fileRecords[Len(popularFiles) + k]
  /\ Len(popularFiles) + Len(regularFiles) = Len(fileRecords)
  /\ PathsOf(popularFiles) \cap PathsOf(regularFiles) = {}
  /\ PathsOf(popularFiles) \cup PathsOf(regularFiles) = PathsOf(fileRecords)
  /\ Cardinality(PathsOf(fileRecords)) = Len(fileRecords)

\* a returned workload of more than the smallest count that holds a popular
\* and a regular path
C23_Witness ==
  /\ operations.pc = "returned"
  /\ Len(operations.paths) = OperationCount + 1
  /\ \E k \in 1..Len(operations.paths) :
       operations.paths[k] \in PathsOf(popularFiles)
  /\ \E k \in 1..Len(operations.paths) :
       operations.paths[k] \in PathsOf(regularFiles)

(***************************************************************************)
(* Claim about the await inside an operation, checked under SpecSync.      *)
(***************************************************************************)
\* C26: an operation executes without releasing control, so that neither a
\* cancel nor another run's operation takes effect in the middle of it:
\* while a run is between the cache.get of an operation and the rest of
\* that operation, any step other than the run's own continuation leaves
\* the cache and the flag as they are
C26_OperationAtomic ==
  [][\A r \in 1..Len(runs) :
       (runs[r].pc = "await" /\ runs'[r].pc = "await") =>
         cache' = cache /\ isRunning' = isRunning]_vars

====
